---- MODULE Spec2Model ----
(***************************************************************************)
(* Model of the TRADEAGENT analysis loop: the four collectors, the         *)
(* rule-based MarketSignalDetector, the LangGraph workflow of              *)
(* trading_graph.py, TradingMonitor.analyze_symbol with the repository     *)
(* writes, and AccuracyTracker.update_signal_performance.                  *)
(*                                                                         *)
(* Numbers are scaled to integers:                                         *)
(*   funding rates       in units of 0.0001   (0.001  -> 10)               *)
(*   price change, score in units of 1% / 0.01                             *)
(*   ratios              in units of 0.01     (2.5    -> 250)              *)
(*   tracker percent     in units of 0.01%    (11.0%  -> 1100)             *)
(* Signal type strings of the source are written as ASCII tags.            *)
(***************************************************************************)
EXTENDS Integers, Sequences, FiniteSets, TLC

(***************************************************************************)
(* Settings (config/settings.py), scaled as described above.               *)
(***************************************************************************)
FUNDING_RATE_EXTREME_THRESHOLD == 10
FUNDING_RATE_CHANGE_THRESHOLD == 5
PRICE_CHANGE_THRESHOLD == 5
VOLUME_SURGE_RATIO == 2
NEWS_SENTIMENT_THRESHOLD == 50
MIN_SIGNAL_COUNT == 2
MAX_RETRIES == 3

(***************************************************************************)
(* Python values: None, the empty dict, and truthiness of a snapshot.      *)
(***************************************************************************)
NULL == [kind |-> "null"]
EMPTY == [kind |-> "empty"]
Truthy(x) == x.kind \notin {"null", "empty"}
OrEmpty(x) == IF Truthy(x) THEN x ELSE EMPTY

Abs(n) == IF n < 0 THEN -n ELSE n

(***************************************************************************)
(* Snapshots as the collectors build them.                                 *)
(***************************************************************************)
FundingSnap(rate, trend) ==
  [kind |-> "funding", current_rate |-> rate,
   is_extreme |-> (rate >= 10 \/ rate <= -10), trend |-> trend]

KlineSnap(price, pct, cur_vol, avg_vol) ==
  [kind |-> "kline", current_price |-> price, price_change_pct |-> pct,
   current_volume |-> cur_vol, avg_volume |-> avg_vol,
   volume_trend |-> IF cur_vol > avg_vol THEN "surge" ELSE "shrink"]

\* LiquidationCollector._analyze_market_pressure: ls = long/short ratio x100,
\* long_pct = long account share in percent
RiskLevel(ls, long_pct) ==
  IF ls > 250 \/ long_pct > 75 THEN "high"
  ELSE IF ls < 50 \/ long_pct < 25 THEN "high"
  ELSE IF ls > 180 \/ long_pct > 65 THEN "medium"
  ELSE IF ls < 70 \/ long_pct < 35 THEN "medium"
  ELSE "low"

LiqSnap(ls, long_pct, bs) ==
  [kind |-> "liquidation", data_available |-> TRUE,
   long_short_ratio |-> ls, long_account_pct |-> long_pct,
   buy_sell_ratio |-> bs, risk_level |-> RiskLevel(ls, long_pct)]

\* the snapshot LiquidationCollector returns when an upstream call fails
LiqDegraded ==
  [kind |-> "liquidation", data_available |-> FALSE,
   long_short_ratio |-> 0, long_account_pct |-> 0,
   buy_sell_ratio |-> 0, risk_level |-> "unknown"]

NewsSnap(avail, score) ==
  [kind |-> "news", data_available |-> avail, score |-> score]

\* all three news sources unavailable (missing API keys or failed calls)
NewsDegraded == NewsSnap(FALSE, 0)

(***************************************************************************)
(* MarketSignalDetector: the five checks. NOSIGNAL is Python's None.       *)
(***************************************************************************)
NOSIGNAL == [type |-> "none", strength |-> "none", value |-> 0]
Signal(t, s, v) == [type |-> t, strength |-> s, value |-> v]

\* the velocity test tried before the extreme test
_check_funding_velocity_first(fr) ==
  IF ~Truthy(fr) THEN NOSIGNAL
  ELSE IF Abs(fr.current_rate) > FUNDING_RATE_CHANGE_THRESHOLD
          /\ fr.trend = "up" /\ fr.current_rate > 0
    THEN Signal("funding_fast_rise", "medium", fr.current_rate)
  ELSE IF Abs(fr.current_rate) > FUNDING_RATE_CHANGE_THRESHOLD
          /\ fr.trend = "down" /\ fr.current_rate < 0
    THEN Signal("funding_fast_fall", "medium", fr.current_rate)
  ELSE IF fr.is_extreme /\ fr.current_rate > FUNDING_RATE_EXTREME_THRESHOLD
    THEN Signal("funding_extreme_long", "strong", fr.current_rate)
  ELSE IF fr.is_extreme /\ fr.current_rate < -FUNDING_RATE_EXTREME_THRESHOLD
    THEN Signal("funding_extreme_short", "strong", fr.current_rate)
  ELSE NOSIGNAL

_check_funding_rate_signal(fr) ==
  IF ~Truthy(fr) THEN NOSIGNAL
  ELSE IF fr.is_extreme /\ fr.current_rate > FUNDING_RATE_EXTREME_THRESHOLD
    THEN Signal("funding_extreme_long", "strong", fr.current_rate)
  ELSE IF fr.is_extreme /\ fr.current_rate < -FUNDING_RATE_EXTREME_THRESHOLD
    THEN Signal("funding_extreme_short", "strong", fr.current_rate)
  ELSE IF Abs(fr.current_rate) > FUNDING_RATE_CHANGE_THRESHOLD
          /\ fr.trend = "up" /\ fr.current_rate > 0
    THEN Signal("funding_fast_rise", "medium", fr.current_rate)
  ELSE IF Abs(fr.current_rate) > FUNDING_RATE_CHANGE_THRESHOLD
          /\ fr.trend = "down" /\ fr.current_rate < 0
    THEN Signal("funding_fast_fall", "medium", fr.current_rate)
  ELSE NOSIGNAL

_check_price_volatility_signal(kv) ==
  IF ~Truthy(kv) THEN NOSIGNAL
  ELSE IF Abs(kv.price_change_pct) >= PRICE_CHANGE_THRESHOLD
    THEN IF kv.price_change_pct > 0
           THEN Signal("price_surge", "strong", kv.price_change_pct)
           ELSE Signal("price_plunge", "strong", kv.price_change_pct)
  ELSE NOSIGNAL

\* volume_ratio = current_volume / avg_volume >= VOLUME_SURGE_RATIO
_check_volume_anomaly_signal(kv) ==
  IF ~Truthy(kv) THEN NOSIGNAL
  ELSE IF kv.avg_volume = 0 THEN NOSIGNAL
  ELSE IF kv.volume_trend = "surge"
          /\ kv.current_volume >= VOLUME_SURGE_RATIO * kv.avg_volume
    THEN Signal("volume_surge", "medium", kv.current_volume)
  ELSE NOSIGNAL

_check_liquidation_signal(lq) ==
  IF ~Truthy(lq) THEN NOSIGNAL
  ELSE IF ~lq.data_available THEN NOSIGNAL
  ELSE IF lq.risk_level = "high"
    THEN IF lq.long_short_ratio > 250 \/ lq.long_account_pct > 75
           THEN Signal("long_crowded", "strong", lq.long_short_ratio)
         ELSE IF lq.long_short_ratio < 50 \/ lq.long_account_pct < 25
           THEN Signal("short_crowded", "strong", lq.long_short_ratio)
         ELSE NOSIGNAL
  ELSE IF lq.risk_level = "medium"
    THEN IF lq.buy_sell_ratio > 120
           THEN Signal("taker_buy_strong", "medium", lq.buy_sell_ratio)
         ELSE IF lq.buy_sell_ratio < 80
           THEN Signal("taker_sell_strong", "medium", lq.buy_sell_ratio)
         ELSE NOSIGNAL
  ELSE NOSIGNAL

_check_news_sentiment_signal(ns) ==
  IF ~Truthy(ns) THEN NOSIGNAL
  ELSE IF ~ns.data_available THEN NOSIGNAL
  ELSE IF Abs(ns.score) >= NEWS_SENTIMENT_THRESHOLD
    THEN IF ns.score > 0
           THEN Signal("news_very_positive", "medium", ns.score)
           ELSE Signal("news_very_negative", "medium", ns.score)
  ELSE NOSIGNAL

\* the five check results in the order detect_trading_opportunity runs them
CheckResults(fr, kv, lq, ns) ==
  << _check_funding_rate_signal(fr),
     _check_price_volatility_signal(kv),
     _check_volume_anomaly_signal(kv),
     _check_liquidation_signal(lq),
     _check_news_sentiment_signal(ns) >>

\* every check result appended, the tests on the result dropped
AllTypes(results) == [i \in 1..Len(results) |-> results[i].type]

\* self.signals: the type of every check that returned a signal, in order
SignalTypes(results) ==
  LET types == [i \in 1..Len(results) |-> results[i].type]
  IN  SelectSeq(types, LAMBDA t : t # "none")

\* quorum test off by one
HasQuorumStrict(n) == n > MIN_SIGNAL_COUNT

HasQuorum(n) == n >= MIN_SIGNAL_COUNT

detect_trading_opportunity(en, fr, kv, lq, ns) ==
  IF ~en
    THEN [has_opportunity |-> TRUE, signals |-> <<"detection_disabled">>]
    ELSE LET sigs == SignalTypes(CheckResults(fr, kv, lq, ns))
         IN  [has_opportunity |-> HasQuorum(Len(sigs)), signals |-> sigs]

\* MarketSignalDetector.format_signal_summary
format_signal_summary(en, has_opportunity, signals) ==
  IF ~en THEN [kind |-> "disabled", count |-> 0]
  ELSE IF ~has_opportunity
    THEN [kind |-> "no_opportunity", count |-> Len(signals)]
  ELSE [kind |-> "opportunity", count |-> Len(signals)]

(***************************************************************************)
(* Bounds of the model.                                                    *)
(***************************************************************************)
MaxRuns == 2
MaxStalls == 1

(***************************************************************************)
(* State.                                                                  *)
(***************************************************************************)
VARIABLES
  enabled,            \* settings.MARKET_SIGNAL_DETECTION_ENABLED
  pc,                 \* position of analyze_symbol / the workflow
  state,              \* TradingState of the run in progress
  attempts,           \* failed upstream attempts of each collector node
  writes,             \* value returned by each collector node, until the join
  calls,              \* per run: invocations of detector, reasoner, save, alert
  analysis_count,     \* TradingMonitor.analysis_count
  retval,             \* last value returned by analyze_symbol
  analysis_records,   \* table analysis_records
  price_records,      \* table price_records
  signal_performance, \* table signal_performance
  clock,              \* datetime.now(), in ticks
  trk,                \* the invocations of update_signal_performance
  next_fire,          \* next trigger time of the signal_update job
  horizon,            \* the clock value at which the model stops time
  last_run,           \* history: the tracker run that completed last
  sched,              \* the BlockingScheduler of run_monitor_mode and its jobs
  det_in,             \* detector inputs   (detector specification only)
  det_out,            \* detector result   (detector specification only)
  report,             \* the get_accuracy_report call in progress
  retry               \* the _retry_on_error call in progress

vars == << enabled, pc, state, attempts, writes, calls, analysis_count, retval,
           analysis_records, price_records, signal_performance,
           clock, trk, next_fire, horizon, last_run, sched, det_in, det_out,
           report, retry >>

run_vars == << pc, state, attempts, writes, calls, analysis_count, retval >>
store_vars == << analysis_records, price_records, signal_performance >>
trk_vars == << clock, trk, next_fire, horizon, last_run, sched >>
det_vars == << det_in, det_out, report, retry >>

(***************************************************************************)
(* The LangGraph workflow (trading_graph.py).                              *)
(***************************************************************************)
Collectors == << "collect_funding_rate", "collect_kline",
                 "collect_liquidation", "collect_news" >>
CollectorSet == { Collectors[i] : i \in 1..Len(Collectors) }

\* a collector node that has not returned yet
PENDING == [kind |-> "pending"]
NodeReturn(v, errs) == [kind |-> "return", value |-> v, errors |-> errs]

\* the snapshots the upstream can yield in a run
RunFunding == { FundingSnap(12, "up"), FundingSnap(0, "flat") }
RunKline == { KlineSnap(100, 6, 10, 10), KlineSnap(100, 0, 10, 10) }
RunLiq == { LiqSnap(260, 72, 100), LiqSnap(100, 50, 100) }
RunNews == { NewsSnap(TRUE, 60), NewsSnap(TRUE, 0) }

\* trend marker carried by the text the Reasoner returns
ReasonerTexts == { "bull", "bear", "side", "none" }

\* run_trading_analysis: initial_state
initial_state ==
  [funding_rate |-> NULL, kline_volume |-> NULL, liquidation |-> NULL,
   news_sentiment |-> NULL, has_trading_opportunity |-> "None",
   signal_summary |-> NULL, formatted_data |-> NULL,
   analysis_result |-> NULL, errors |-> << >>]

NoCalls == [detection_node |-> 0, detector |-> 0, format |-> 0,
            reasoner |-> 0, save |-> 0, alert |-> 0, alert_failed |-> 0]

\* one attempt more before the failure is re-raised
RetryExhaustedLate(failed) == ~(failed < MAX_RETRIES)

\* BaseCollector._retry_on_error after one more failed attempt: TRUE when the
\* failure is re-raised (attempt index failed = attempts so far)
RetryExhausted(failed) == ~(failed < MAX_RETRIES - 1)

\* all four collector nodes have returned
AllReturned(w) == \A c \in CollectorSet : w[c] # PENDING

\* a join that fires on the first collector to return
JoinOnAny(w) == \E c \in CollectorSet : w[c] # PENDING

\* the join before market_signal_detection: every predecessor has returned
JoinReady(w) == AllReturned(w)

\* a reducer that keeps the latest update only
ReplaceErrors(old, new) == new

\* errors: Annotated[List[str], operator.add]
AddErrors(old, new) == old \o new

\* the update a node contributes at the join (nothing while it is pending)
ValueOf(r) == IF r = PENDING THEN NULL ELSE r.value
ErrorsOf(r) == IF r = PENDING THEN << >> ELSE r.errors

\* errors: Annotated[List[str], operator.add], applied in node order
RECURSIVE ConcatErrors(_, _)
ConcatErrors(w, i) ==
  IF i > Len(Collectors) THEN << >>
  ELSE ErrorsOf(w[Collectors[i]]) \o ConcatErrors(w, i + 1)

\* analyze_symbol starts: analysis_count += 1, run_trading_analysis builds
\* the graph and dispatches the four entry nodes
StartRun ==
  /\ pc = "idle"
  /\ analysis_count < MaxRuns
  /\ analysis_count' = analysis_count + 1
  /\ pc' = "collect"
  /\ state' = initial_state
  /\ attempts' = [c \in CollectorSet |-> 0]
  /\ writes' = [c \in CollectorSet |-> PENDING]
  /\ calls' = NoCalls
  /\ retval' = "none"
  /\ UNCHANGED << enabled, store_vars, trk_vars, det_vars >>

\* one upstream attempt of a collector that re-raises on exhaustion
\* (FundingRateCollector, KlineVolumeCollector), seen from its node
RetryingAttempt(c, snaps, errtag) ==
  /\ pc = "collect"
  /\ writes[c] = PENDING
  /\ \/ \E s \in snaps :
          /\ writes' = [writes EXCEPT ![c] = NodeReturn(s, << >>)]
          /\ UNCHANGED attempts
     \/ /\ ~RetryExhausted(attempts[c])
        /\ attempts' = [attempts EXCEPT ![c] = @ + 1]
        /\ UNCHANGED writes
     \/ /\ RetryExhausted(attempts[c])
        /\ attempts' = [attempts EXCEPT ![c] = @ + 1]
        /\ writes' = [writes EXCEPT ![c] = NodeReturn(NULL, << errtag >>)]
  /\ UNCHANGED << enabled, pc, state, calls, analysis_count, retval,
                  store_vars, trk_vars, det_vars >>

collect_funding_rate_node ==
  RetryingAttempt("collect_funding_rate", RunFunding, "funding_failed")

collect_kline_node ==
  RetryingAttempt("collect_kline", RunKline, "kline_failed")

\* LiquidationCollector._fetch catches every upstream failure itself and
\* returns the degraded snapshot, so the node always gets a snapshot
collect_liquidation_node ==
  /\ pc = "collect"
  /\ writes["collect_liquidation"] = PENDING
  /\ \E s \in RunLiq \cup { LiqDegraded } :
       writes' = [writes EXCEPT !["collect_liquidation"] = NodeReturn(s, << >>)]
  /\ UNCHANGED << enabled, pc, state, attempts, calls, analysis_count, retval,
                  store_vars, trk_vars, det_vars >>

\* NewsSentimentCollector: each source degrades on its own failure; the node
\* itself raises while logging a macro headline whose title is null
collect_news_node ==
  /\ pc = "collect"
  /\ writes["collect_news"] = PENDING
  /\ \/ \E s \in RunNews \cup { NewsDegraded } :
          writes' = [writes EXCEPT !["collect_news"] = NodeReturn(s, << >>)]
     \/ writes' = [writes EXCEPT !["collect_news"] =
                     NodeReturn(NULL, << "news_failed" >>)]
  /\ UNCHANGED << enabled, pc, state, attempts, calls, analysis_count, retval,
                  store_vars, trk_vars, det_vars >>

\* end of the first superstep: the four returned updates are applied and
\* market_signal_detection is scheduled
Join ==
  /\ pc = "collect"
  /\ JoinReady(writes)
  /\ state' = [state EXCEPT
                 !.funding_rate = ValueOf(writes["collect_funding_rate"]),
                 !.kline_volume = ValueOf(writes["collect_kline"]),
                 !.liquidation = ValueOf(writes["collect_liquidation"]),
                 !.news_sentiment = ValueOf(writes["collect_news"]),
                 !.errors = AddErrors(@, ConcatErrors(writes, 1))]
  /\ pc' = "detect"
  /\ UNCHANGED << enabled, attempts, writes, calls, analysis_count, retval,
                  store_vars, trk_vars, det_vars >>

\* FactorAnalyzer.format_for_llm indexes lq[...] and ns[...] directly: an
\* empty dict raises KeyError
format_for_llm(fr, kv, lq, ns) ==
  IF lq = EMPTY \/ ns = EMPTY THEN [kind |-> "raise"]
  ELSE [kind |-> "text"]

\* the gate never closes
GateNeverClosed(has) == FALSE

\* ai_analysis_node: not state.get("has_trading_opportunity", True)
GateClosed(has) == has \in {"None", "False"}

PyBool(b) == IF b THEN "True" ELSE "False"

\* the key data check dropped
MissingKeyDataIgnored(st) == FALSE

\* not state["funding_rate"] or not state["kline_volume"]
MissingKeyData(st) == ~Truthy(st.funding_rate) \/ ~Truthy(st.kline_volume)

\* the except branch left closed: no opportunity after a Detector failure
DetectionFailedClosed(st) ==
  [st EXCEPT !.has_trading_opportunity = "False",
             !.signal_summary = [kind |-> "detection_failed", count |-> 0],
             !.errors = AddErrors(@, << "detection_failed" >>)]

\* market_signal_detection_node, except branch: the Detector raised
DetectionFailed(st) ==
  [st EXCEPT !.has_trading_opportunity = "True",
             !.signal_summary = [kind |-> "detection_failed", count |-> 0],
             !.errors = AddErrors(@, << "detection_failed" >>)]

\* market_signal_detection_node; the Detector either returns its verdict or
\* raises
market_signal_detection_node ==
  /\ pc = "detect"
  /\ IF MissingKeyData(state)
       THEN /\ state' = [state EXCEPT
                           !.has_trading_opportunity = "True",
                           !.signal_summary = [kind |-> "insufficient_data",
                                               count |-> 0]]
            /\ calls' = [calls EXCEPT !.detection_node = @ + 1]
       ELSE LET d == detect_trading_opportunity(enabled,
                       state.funding_rate, state.kline_volume,
                       OrEmpty(state.liquidation),
                       OrEmpty(state.news_sentiment))
            IN  /\ \/ state' = [state EXCEPT
                                  !.has_trading_opportunity =
                                      PyBool(d.has_opportunity),
                                  !.signal_summary =
                                      format_signal_summary(enabled,
                                        d.has_opportunity, d.signals)]
                   \/ state' = DetectionFailed(state)
                /\ calls' = [calls EXCEPT !.detection_node = @ + 1,
                                          !.detector = @ + 1]
  /\ pc' = "format"
  /\ UNCHANGED << enabled, attempts, writes, analysis_count, retval,
                  store_vars, trk_vars, det_vars >>

\* the except branch without its error string
FormatFailedSilently(st) == [st EXCEPT !.formatted_data = NULL]

\* format_data_node, except branch
FormatFailed(st) ==
  [st EXCEPT !.formatted_data = NULL,
             !.errors = AddErrors(@, << "format_failed" >>)]

format_data_node ==
  /\ pc = "format"
  /\ LET f == IF MissingKeyData(state)
                THEN [kind |-> "raise"]
                ELSE format_for_llm(state.funding_rate, state.kline_volume,
                                    OrEmpty(state.liquidation),
                                    OrEmpty(state.news_sentiment))
     IN  IF f.kind = "raise"
           THEN state' = FormatFailed(state)
           ELSE state' = [state EXCEPT !.formatted_data = f]
  /\ calls' = [calls EXCEPT !.format = @ + 1]
  /\ pc' = "ai"
  /\ UNCHANGED << enabled, attempts, writes, analysis_count, retval,
                  store_vars, trk_vars, det_vars >>

\* ai_analysis_node; the Reasoner (TradingAgent().analyze) either returns a
\* text or raises
ai_analysis_node ==
  /\ pc = "ai"
  /\ IF GateClosed(state.has_trading_opportunity)
       THEN /\ state' = [state EXCEPT !.analysis_result =
                           [kind |-> "synthetic",
                            summary |-> state.signal_summary]]
            /\ UNCHANGED calls
     ELSE IF ~Truthy(state.formatted_data)
       THEN /\ state' = [state EXCEPT !.analysis_result = NULL,
                                      !.errors = AddErrors(@, << "ai_failed" >>)]
            /\ UNCHANGED calls
     ELSE /\ calls' = [calls EXCEPT !.reasoner = @ + 1]
          /\ \/ \E t \in ReasonerTexts :
                  state' = [state EXCEPT !.analysis_result =
                              [kind |-> "llm", trend |-> t]]
             \/ state' = [state EXCEPT !.analysis_result = NULL,
                                       !.errors = AddErrors(@, << "ai_failed" >>)]
  /\ pc' = "end"
  /\ UNCHANGED << enabled, attempts, writes, analysis_count, retval,
                  store_vars, trk_vars, det_vars >>

(***************************************************************************)
(* AnalysisRepository.save_analysis and the rest of analyze_symbol.        *)
(***************************************************************************)
\* a price column that holds None; None and 0.0 are both falsy in every test
\* the code makes, and exit_price is only ever set to a truthy price
NoPrice == 0

\* AnalysisRepository._extract_price: re.search is given the pattern
\* '\True\s*(...)', which re rejects (bad escape \T) for every text
_extract_price == [kind |-> "raise", price |-> NoPrice]

\* the callers in _parse_analysis_result swallow every exception of
\* _extract_price and then leave the field unset
ParsedPrice == IF _extract_price.kind = "raise" THEN NoPrice
               ELSE _extract_price.price

\* AnalysisRepository._parse_analysis_result
_parse_analysis_result(result) ==
  [trend_direction |-> IF result.kind = "llm" THEN result.trend ELSE "none",
   stop_loss |-> IF result.kind = "llm" THEN ParsedPrice ELSE NoPrice,
   target_price |-> IF result.kind = "llm" THEN ParsedPrice ELSE NoPrice]

\* TradingState has no key triggered_signals: state.get(..., []) is []
triggered_signals(st) == << >>

\* the row save_analysis hands to AnalysisRecord.create
AnalysisRow(id, st, result, now) ==
  LET parsed == _parse_analysis_result(result)
      has == st.has_trading_opportunity = "True"
  IN  [id |-> id, timestamp |-> now,
       current_price |-> st.kline_volume.current_price,
       has_trading_opportunity |-> has,
       signal_count |-> IF has THEN Len(triggered_signals(st)) ELSE 0,
       trend_direction |-> parsed.trend_direction,
       target_price |-> parsed.target_price,
       stop_loss |-> parsed.stop_loss,
       full_analysis |-> result.kind]

\* SignalPerformance.create: an open row
OpenRow(id, analysis_id, entry_price, entry_time) ==
  [id |-> id, analysis_id |-> analysis_id, entry_price |-> entry_price,
   entry_time |-> entry_time, exit_price |-> NoPrice, exit_time |-> 0,
   price_change_pct |-> 0, hit_target |-> FALSE, hit_stop_loss |-> FALSE,
   is_profitable |-> FALSE]

\* the result check dropped
HasResultUnchecked(st) == TRUE

\* analyze_symbol: the result check after run_trading_analysis
HasResult(st) == Truthy(st.analysis_result)

\* analyze_symbol returns False without touching the store
ReturnFailed ==
  /\ pc = "end"
  /\ ~HasResult(state)
  /\ retval' = "False"
  /\ pc' = "idle"
  /\ UNCHANGED << enabled, state, attempts, writes, calls, analysis_count,
                  store_vars, trk_vars, det_vars >>

\* a row for every saved price, opportunity or not
TracksEveryPrice(price, has) == price # NoPrice

\* save_analysis: if current_price and state.get('has_trading_opportunity')
TracksOutcome(price, has) == price # NoPrice /\ has = "True"

\* the create call of save_analysis that raises (0: none of them)
SaveFailures == 0..3

\* the n-th create call commits when the failure, if any, comes later
Committed(k, n) == k = 0 \/ n < k

\* analyze_symbol calls save_analysis: three writes, each its own
\* transaction, so a failing write leaves the earlier ones committed and
\* the handler's except returns False. With kline_volume None,
\* kline_data.get raises before any write.
SaveAnalysis ==
  /\ pc = "end"
  /\ HasResult(state)
  /\ calls' = [calls EXCEPT !.save = @ + 1]
  /\ IF ~Truthy(state.kline_volume)
       THEN /\ retval' = "False"
            /\ pc' = "idle"
            /\ UNCHANGED store_vars
       ELSE LET id == Len(analysis_records) + 1
                price == state.kline_volume.current_price
                has == state.has_trading_opportunity
            IN  \E k \in SaveFailures :
                  /\ k = 2 => price # NoPrice
                  /\ k = 3 => TracksOutcome(price, has)
                  /\ analysis_records' =
                       IF Committed(k, 1)
                         THEN Append(analysis_records,
                                AnalysisRow(id, state, state.analysis_result,
                                            clock))
                         ELSE analysis_records
                  /\ price_records' =
                       IF Committed(k, 2) /\ price # NoPrice
                         THEN Append(price_records,
                                     [timestamp |-> clock, price |-> price])
                         ELSE price_records
                  /\ signal_performance' =
                       IF Committed(k, 3) /\ TracksOutcome(price, has)
                         THEN Append(signal_performance,
                                OpenRow(Len(signal_performance) + 1, id,
                                        price, clock))
                         ELSE signal_performance
                  /\ pc' = IF k = 0 THEN "saved" ELSE "idle"
                  /\ retval' = IF k = 0 THEN retval ELSE "False"
  /\ UNCHANGED << enabled, state, attempts, writes, analysis_count,
                  trk_vars, det_vars >>

\* self.repo.extract_alert_data: AnalysisRepository defines no such method,
\* the attribute lookup raises AttributeError
extract_alert_data == [kind |-> "raise"]

\* AlertManager.send_alert returns, or raises while formatting the alert
AlertOutcomes == { "sent", "raise" }

\* analyze_symbol after the save: with an opportunity it builds the alert
\* data and calls send_alert; any exception on the way is caught by the
\* handler's except, which returns False
AlertStage ==
  /\ pc = "saved"
  /\ IF state.has_trading_opportunity # "True"
       THEN /\ retval' = "True"
            /\ UNCHANGED calls
     ELSE IF extract_alert_data.kind = "raise"
       THEN /\ retval' = "False"
            /\ calls' = [calls EXCEPT !.alert_failed = @ + 1]
     ELSE \E a \in AlertOutcomes :
            /\ retval' = IF a = "sent" THEN "True" ELSE "False"
            /\ calls' = [calls EXCEPT
                           !.alert = @ + 1,
                           !.alert_failed = IF a = "sent" THEN @ ELSE @ + 1]
  /\ pc' = "idle"
  /\ UNCHANGED << enabled, state, attempts, writes, analysis_count,
                  store_vars, trk_vars, det_vars >>

(***************************************************************************)
(* AccuracyTracker.update_signal_performance.                              *)
(***************************************************************************)
TicksPerHour == 2
LOOKBACK_HOURS == 24
TIMEOUT_HOURS == 24
TRACK_INTERVAL_MINUTES == 60

Lookback == LOOKBACK_HOURS * TicksPerHour
Timeout == TIMEOUT_HOURS * TicksPerHour
TrackInterval == (TRACK_INTERVAL_MINUTES * TicksPerHour) \div 60

\* the scheduled signal_update job and the CLI refresh (--update-signals)
Trackers == { "job", "cli" }

IdleTracker == [pc |-> "idle", cutoff |-> 0, pending |-> << >>,
                price |-> NoPrice, clean |-> FALSE]

NoRun == [valid |-> FALSE, price |-> NoPrice, clock |-> 0, closed |-> 0,
          ret |-> 0, repeat |-> FALSE]

\* the analysis record a signal_performance row is joined with
AnalysisOf(row) == analysis_records[row.analysis_id]

\* the query without its exit_price IS NULL filter
SelectedAnyExit(row, cutoff) == row.entry_time >= cutoff

\* SELECT ... WHERE entry_time >= cutoff AND exit_price IS NULL
Selected(row, cutoff) ==
  /\ row.entry_time >= cutoff
  /\ row.exit_price = NoPrice

\* ORDER BY sp.entry_time DESC (ties in id order)
RECURSIVE OrderDesc(_, _)
OrderDesc(ids, sp) ==
  IF ids = {} THEN << >>
  ELSE LET first == CHOOSE i \in ids :
                      \A j \in ids :
                        \/ sp[i].entry_time > sp[j].entry_time
                        \/ sp[i].entry_time = sp[j].entry_time /\ i <= j
       IN  << first >> \o OrderDesc(ids \ { first }, sp)

PendingSignals(sp, cutoff) ==
  OrderDesc({ i \in DOMAIN sp : Selected(sp[i], cutoff) }, sp)

\* price_change_pct = (current - entry) / entry * 100, in units of 0.01%
PriceChangePct(entry, current) == ((current - entry) * 10000) \div entry

\* target comparison made strict
BullTargetHitStrict(target, current) == target # NoPrice /\ current > target

BullTargetHit(target, current) == target # NoPrice /\ current >= target
BullStopHit(stop, current) == stop # NoPrice /\ current <= stop
BearTargetHit(target, current) == target # NoPrice /\ current <= target
BearStopHit(stop, current) == stop # NoPrice /\ current >= stop

\* the defaults judged by the sign of the price change
DefaultsBySign(pct) ==
  [pct |-> pct, hit_target |-> FALSE, hit_stop_loss |-> FALSE,
   is_profitable |-> pct > 0]

\* lines 81-83: the flags as initialised, kept when neither branch is taken
Defaults(pct) ==
  [pct |-> pct, hit_target |-> FALSE, hit_stop_loss |-> FALSE,
   is_profitable |-> FALSE]

\* lines 78-105: the outcome flags of one pending row at the current price
Classify(trend, target, stop, entry, current) ==
  LET pct == PriceChangePct(entry, current)
  IN  IF trend = "bull"
        THEN IF BullTargetHit(target, current)
               THEN [pct |-> pct, hit_target |-> TRUE, hit_stop_loss |-> FALSE,
                     is_profitable |-> TRUE]
             ELSE IF BullStopHit(stop, current)
               THEN [pct |-> pct, hit_target |-> FALSE, hit_stop_loss |-> TRUE,
                     is_profitable |-> FALSE]
             ELSE [pct |-> pct, hit_target |-> FALSE, hit_stop_loss |-> FALSE,
                   is_profitable |-> pct > 0]
      ELSE IF trend = "bear"
        THEN IF BearTargetHit(target, current)
               THEN [pct |-> pct, hit_target |-> TRUE, hit_stop_loss |-> FALSE,
                     is_profitable |-> TRUE]
             ELSE IF BearStopHit(stop, current)
               THEN [pct |-> pct, hit_target |-> FALSE, hit_stop_loss |-> TRUE,
                     is_profitable |-> FALSE]
             ELSE [pct |-> pct, hit_target |-> FALSE, hit_stop_loss |-> FALSE,
                   is_profitable |-> pct < 0]
      ELSE Defaults(pct)

\* hours_elapsed >= 24
TimedOut(entry_time, now) == now - entry_time >= Timeout

ShouldClose(c, entry_time, now) ==
  c.hit_target \/ c.hit_stop_loss \/ TimedOut(entry_time, now)

ClassifyRow(row, current) ==
  Classify(AnalysisOf(row).trend_direction, AnalysisOf(row).target_price,
           AnalysisOf(row).stop_loss, row.entry_price, current)

\* the pending ids this invocation closes
Closing(sp, pending, current, now) ==
  { i \in { pending[k] : k \in 1..Len(pending) } :
      ShouldClose(ClassifyRow(sp[i], current), sp[i].entry_time, now) }

\* UPDATE signal_performance SET ... WHERE id = ?
ClosedRow(row, current, now) ==
  LET c == ClassifyRow(row, current)
  IN  [row EXCEPT !.exit_price = current, !.exit_time = now,
                  !.price_change_pct = c.pct, !.hit_target = c.hit_target,
                  !.hit_stop_loss = c.hit_stop_loss,
                  !.is_profitable = c.is_profitable]

\* history of completed runs: a run that ends is a repeat when it started
\* after the previous run ended, no other run changed the store in between,
\* and it fetched the price the previous run fetched
IsRepeat(clean, p) ==
  /\ last_run.valid
  /\ clean
  /\ p = last_run.price

\* the invocation returns n: its locals are dropped
Completed(t, clean, p, n) ==
  /\ last_run' = [valid |-> TRUE, price |-> p, clock |-> clock,
                  closed |-> IF IsRepeat(clean, p) THEN last_run.closed ELSE n,
                  ret |-> n, repeat |-> IsRepeat(clean, p)]
  /\ trk' = [u \in Trackers |->
               IF u = t THEN IdleTracker
               ELSE [trk[u] EXCEPT !.clean = FALSE]]

\* lines 35-56: the query; with nothing pending the invocation returns 0
TrackerSelect(t) ==
  /\ trk[t].pc = "idle"
  /\ LET cutoff == clock - Lookback
         pending == PendingSignals(signal_performance, cutoff)
     IN  IF pending = << >>
           THEN Completed(t, last_run.valid, NoPrice, 0)
           ELSE /\ trk' = [trk EXCEPT ![t] =
                             [pc |-> "selected", cutoff |-> cutoff,
                              pending |-> pending, price |-> NoPrice,
                              clean |-> last_run.valid]]
                /\ UNCHANGED last_run
  /\ UNCHANGED << clock, horizon, sched, store_vars, enabled, run_vars, det_vars >>

\* lines 61-62: kline_collector.collect(symbol) returns the current price
TrackerFetchPrice(t, P) ==
  /\ trk[t].pc = "selected"
  /\ \E p \in P : trk' = [trk EXCEPT ![t].pc = "priced", ![t].price = p]
  /\ UNCHANGED << clock, next_fire, horizon, sched, last_run, store_vars, enabled,
                  run_vars, det_vars >>

\* the price fetch raises after its retries (caught at line 142), or the
\* price is falsy (line 64): nothing was written, the invocation returns 0
TrackerFetchFail(t) ==
  /\ trk[t].pc = "selected"
  /\ Completed(t, trk[t].clean, NoPrice, 0)
  /\ UNCHANGED << clock, next_fire, horizon, sched, store_vars, enabled, run_vars,
                  det_vars >>

\* lines 69-140: the update loop and the commit
TrackerUpdate(t) ==
  /\ trk[t].pc = "priced"
  /\ LET closing == Closing(signal_performance, trk[t].pending,
                            trk[t].price, clock)
     IN  /\ signal_performance' =
               [i \in DOMAIN signal_performance |->
                  IF i \in closing
                    THEN ClosedRow(signal_performance[i], trk[t].price, clock)
                    ELSE signal_performance[i]]
         /\ Completed(t, trk[t].clean, trk[t].price, Cardinality(closing))
  /\ UNCHANGED << clock, next_fire, horizon, sched, analysis_records, price_records,
                  enabled, run_vars, det_vars >>

\* the update loop or the commit raises after k rows were updated: __exit__
\* rolls the transaction back, the except clause returns the counter
TrackerUpdateFails(t) ==
  /\ trk[t].pc = "priced"
  /\ LET closing == Closing(signal_performance, trk[t].pending,
                            trk[t].price, clock)
     IN  /\ closing # {}
         /\ \E k \in 0..Cardinality(closing) :
              Completed(t, trk[t].clean, trk[t].price, k)
  /\ UNCHANGED << clock, next_fire, horizon, sched, store_vars, enabled,
                  run_vars, det_vars >>

\* update_signal_performance called at an arbitrary moment
Invoke(t) == TrackerSelect(t) /\ UNCHANGED next_fire

\* the signal_update job fired by its interval trigger
signal_update_job ==
  /\ clock >= next_fire
  /\ TrackerSelect("job")
  /\ next_fire' = next_fire + TrackInterval

\* time passes
Tick ==
  /\ clock < horizon
  /\ clock' = clock + 1
  /\ UNCHANGED << trk, next_fire, horizon, sched, last_run, store_vars, enabled,
                  run_vars, det_vars >>

\* time passes while the hourly job is punctual: a due trigger fires before
\* the clock moves on, and a run in progress ends within MaxRunTicks
MaxRunTicks == 1

PunctualTick ==
  /\ ~(trk["job"].pc = "idle" /\ clock >= next_fire)
  /\ trk["job"].pc # "idle" => clock < trk["job"].cutoff + Lookback + MaxRunTicks
  /\ Tick

(***************************************************************************)
(* AccuracyTracker.get_accuracy_report.                                    *)
(***************************************************************************)
\* days: int = 30
REPORT_DAYS == 30

TicksPerDay == 24 * TicksPerHour

\* sum of f over the finite set S
RECURSIVE SumOver(_, _)
SumOver(S, f) ==
  IF S = {} THEN 0
  ELSE LET x == CHOOSE y \in S : TRUE
       IN  f[x] + SumOver(S \ {x}, f)

\* WHERE entry_time >= cutoff [AND exit_price IS NOT NULL]
ReportRows(cutoff) ==
  { i \in DOMAIN signal_performance :
      signal_performance[i].entry_time >= cutoff }

ReportClosed(cutoff) ==
  { i \in ReportRows(cutoff) : signal_performance[i].exit_price # NoPrice }

\* AVG(price_change_pct) ... or 0
AvgChange(cutoff) ==
  LET c == ReportClosed(cutoff)
  IN  IF c = {} THEN 0
      ELSE SumOver(c, [i \in c |-> signal_performance[i].price_change_pct])
             \div Cardinality(c)

\* GROUP BY ar.trend_direction over the closed rows of the window
TrendStats(cutoff) ==
  LET c == ReportClosed(cutoff)
  IN  { [trend_direction |-> tr,
         total |-> Cardinality({ i \in c :
                      AnalysisOf(signal_performance[i]).trend_direction = tr }),
         profitable |-> Cardinality({ i \in c :
                      /\ AnalysisOf(signal_performance[i]).trend_direction = tr
                      /\ signal_performance[i].is_profitable })] :
        tr \in { AnalysisOf(signal_performance[i]).trend_direction : i \in c } }

\* the quotient without its guard: ZeroDivisionError when nothing is closed
RateUnguarded(part, whole) ==
  IF whole = 0 THEN [kind |-> "raise"]
  ELSE [kind |-> "value", pct |-> (part * 10000) \div whole]

\* (part / whole * 100) if whole > 0 else 0, in units of 0.01 %
Rate(part, whole) ==
  IF whole > 0 THEN [kind |-> "value", pct |-> (part * 10000) \div whole]
  ELSE [kind |-> "value", pct |-> 0]

\* the queries of one report, in the order the code sends them
ReportQueries ==
  << "total", "closed", "profitable", "hit_target", "hit_stop", "avg_change",
     "trend_stats" >>

\* the value one query returns from the store as it is now
QueryResult(q, cutoff) ==
  LET c == ReportClosed(cutoff)
  IN  IF q = "total" THEN Cardinality(ReportRows(cutoff))
      ELSE IF q = "closed" THEN Cardinality(c)
      ELSE IF q = "profitable"
        THEN Cardinality({ i \in c : signal_performance[i].is_profitable })
      ELSE IF q = "hit_target"
        THEN Cardinality({ i \in c : signal_performance[i].hit_target })
      ELSE IF q = "hit_stop"
        THEN Cardinality({ i \in c : signal_performance[i].hit_stop_loss })
      ELSE IF q = "avg_change" THEN AvgChange(cutoff)
      ELSE TrendStats(cutoff)

\* get_accuracy_report is entered: cutoff_time = now - days
ReportCall(days) ==
  /\ report.pc = "none"
  /\ report' = [pc |-> "query", next |-> 1, cutoff |-> clock - days * TicksPerDay,
                got |-> [q \in {} |-> 0], out |-> NULL]
  /\ UNCHANGED << enabled, run_vars, store_vars, trk_vars, det_in, det_out,
                  retry >>

\* one SELECT; sqlite3 opens no transaction for a SELECT, so each query
\* reads the store as committed at that moment
ReportQuery ==
  /\ report.pc = "query"
  /\ report.next <= Len(ReportQueries)
  /\ LET q == ReportQueries[report.next]
     IN  report' = [report EXCEPT
           !.next = @ + 1,
           !.got = [x \in DOMAIN report.got \cup {q} |->
                      IF x = q THEN QueryResult(q, report.cutoff)
                      ELSE report.got[x]]]
  /\ UNCHANGED << enabled, run_vars, store_vars, trk_vars, det_in, det_out,
                  retry >>

\* lines 228-249: the rates and the returned dict, {} after an exception
ReportReturn ==
  /\ report.pc = "query"
  /\ report.next > Len(ReportQueries)
  /\ LET g == report.got
         accuracy == Rate(g["profitable"], g["closed"])
         target_hit_rate == Rate(g["hit_target"], g["closed"])
     IN  report' = [report EXCEPT
           !.pc = "returned",
           !.out =
              IF accuracy.kind = "raise" \/ target_hit_rate.kind = "raise"
                THEN EMPTY
                ELSE [kind |-> "report",
                      total_signals |-> g["total"],
                      closed_signals |-> g["closed"],
                      pending_signals |-> g["total"] - g["closed"],
                      profitable_signals |-> g["profitable"],
                      accuracy |-> accuracy.pct,
                      hit_target_signals |-> g["hit_target"],
                      target_hit_rate |-> target_hit_rate.pct,
                      hit_stop_signals |-> g["hit_stop"],
                      avg_price_change |-> g["avg_change"],
                      trend_stats |-> g["trend_stats"]]]
  /\ UNCHANGED << enabled, run_vars, store_vars, trk_vars, det_in, det_out,
                  retry >>

(***************************************************************************)
(* run_monitor_mode: the two interval jobs under the BlockingScheduler.    *)
(***************************************************************************)
\* no scheduler: analyze_symbol or the tracker called on their own
NoSchedule == [phase |-> "none"]

\* the symbols argument of run_monitor_mode
Symbols == << "BTCUSDT", "ETHUSDT" >>

\* job ids given to add_interval_job
Jobs == { "trading_analysis", "signal_update" }

\* the interval argument of run_monitor_mode, in minutes
ANALYSIS_INTERVAL_MINUTES == 30

\* IntervalTrigger(minutes=minutes), in ticks
Interval(j) ==
  IF j = "trading_analysis"
    THEN (ANALYSIS_INTERVAL_MINUTES * TicksPerHour) \div 60
    ELSE TrackInterval

\* add_job(..., max_instances=1, coalesce=True)
MAX_INSTANCES == 1
COALESCE == TRUE

\* add_job is not given misfire_grace_time, so the scheduler's default of
\* one second applies
MISFIRE_GRACE_SECONDS == 1

SecondsPerTick == 3600 \div TicksPerHour

\* seconds between a trigger time and the moment the scheduler handles it:
\* none when it wakes up for that trigger, and either within or beyond the
\* grace time when it comes back from a stall
WakeDelays == { 0, MISFIRE_GRACE_SECONDS, MISFIRE_GRACE_SECONDS + 1 }

\* what can go wrong inside one analyze_symbol call
AnalysisFailures ==
  { "none", "collection", "reasoning", "persistence", "alerting" }

\* analyze_symbol without its except clause
analyze_symbol_uncaught(f) == [raises |-> f # "none", returns |-> TRUE]

\* TradingMonitor.analyze_symbol seen from analysis_job: everything that
\* can fail is inside try ... except Exception, which returns False
analyze_symbol(f) == [raises |-> FALSE, returns |-> f = "none"]

\* TradingMonitor.update_signals seen from signal_update_job: the tracker
\* call is inside try ... except Exception, which returns 0
update_signals(f) == [raises |-> FALSE, returns |-> f = "none"]

\* the call one job makes for a symbol
JobCall(j, f) ==
  IF j = "trading_analysis" THEN analyze_symbol(f) ELSE update_signals(f)

\* a job function that has just been entered: next symbol, failure seen
NewInstance == [pos |-> 1, failed |-> FALSE]

\* the first trigger time at or after now of an IntervalTrigger created at
\* time 0 (start_date = creation time + interval)
FirstFire(interval, now) ==
  IF interval > now THEN interval
  ELSE interval * ((now + interval - 1) \div interval)

\* Job._get_run_times: the trigger times from next_run_time up to now
RunTimes(next_run_time, interval, now) ==
  { next_run_time + k * interval :
      k \in 0..((now - next_run_time) \div interval) }

\* run_times[-1:] when the job coalesces
Coalesced(run_times) ==
  IF COALESCE /\ run_times # {}
    THEN { CHOOSE t \in run_times : \A u \in run_times : u <= t }
    ELSE run_times

\* the executor admits any number of instances
MaxInstancesIgnored(n) == FALSE

\* BaseExecutor.submit_job: MaxInstancesReachedError
MaxInstancesReached(n) == n >= MAX_INSTANCES

\* run_job: a run time later than the grace time is reported as missed
Missed(run_time, now, delay) ==
  (now - run_time) * SecondsPerTick + delay > MISFIRE_GRACE_SECONDS

\* what has been seen of the analysis cycles: one had a failing symbol, a
\* later one analysed every symbol after that, one ended before its last
\* symbol
NoCycles == [failed |-> FALSE, recovered |-> FALSE, short |-> FALSE]

\* run_monitor_mode after both add_interval_job calls: the first
\* analysis_job() runs in the main thread, the scheduler is not started
SchedulerAdded ==
  [phase |-> "first", stalled |-> FALSE, stalls |-> 0,
   resumed |-> FALSE, wake_delay |-> 0,
   first |-> NewInstance,
   next_run_time |-> [j \in Jobs |-> 0],
   running |-> [j \in Jobs |-> << >>],
   skipped |-> [j \in Jobs |-> FALSE],
   job_errors |-> [j \in Jobs |-> 0],
   cycles |-> NoCycles]

\* instances of job j in flight, the main-thread call included
InFlight(j) ==
  Len(sched.running[j])
    + (IF j = "trading_analysis" /\ sched.phase = "first" THEN 1 ELSE 0)

\* the cycles seen once an analysis cycle that handled n symbols has ended
CycleEnd(inst, n) ==
  [failed |-> sched.cycles.failed \/ inst.failed,
   recovered |-> sched.cycles.recovered
                   \/ (sched.cycles.failed /\ n = Len(Symbols)),
   short |-> sched.cycles.short \/ n < Len(Symbols)]

\* analysis_job() at monitor.py:231 analyses its next symbol; an exception
\* leaving it would leave run_monitor_mode before scheduler.start()
FirstAnalysis ==
  /\ sched.phase = "first"
  /\ sched.first.pos <= Len(Symbols)
  /\ \E f \in AnalysisFailures :
       LET r == analyze_symbol(f)
       IN  IF r.raises
             THEN sched' = [sched EXCEPT
                    !.phase = "crashed",
                    !.cycles = CycleEnd([sched.first EXCEPT !.failed = TRUE],
                                        sched.first.pos - 1)]
             ELSE sched' = [sched EXCEPT
                    !.first.pos = @ + 1,
                    !.first.failed = @ \/ ~r.returns]
  /\ UNCHANGED << enabled, run_vars, store_vars, det_vars, clock, trk,
                  next_fire, horizon, last_run >>

\* scheduler.start(): the pending jobs get their first next_run_time
SchedulerStart ==
  /\ sched.phase = "first"
  /\ sched.first.pos > Len(Symbols)
  /\ sched' = [sched EXCEPT
       !.phase = "started",
       !.next_run_time = [j \in Jobs |-> FirstFire(Interval(j), clock)],
       !.cycles = CycleEnd(sched.first, Len(Symbols))]
  /\ UNCHANGED << enabled, run_vars, store_vars, det_vars, clock, trk,
                  next_fire, horizon, last_run >>

\* the run times of job j the scheduler finds due
Due(j) == RunTimes(sched.next_run_time[j], Interval(j), clock)

\* how many of them run_job executes when the executor accepts the job
Ran(j) ==
  Cardinality({ t \in Coalesced(Due(j)) :
                  ~Missed(t, clock, sched.wake_delay) })

\* BaseScheduler._process_jobs for one due job: collect its run times,
\* coalesce, submit to the executor, advance next_run_time
ProcessJob(j) ==
  /\ sched.phase = "started"
  /\ ~sched.stalled
  /\ clock >= sched.next_run_time[j]
  /\ LET last == CHOOSE t \in Due(j) : \A u \in Due(j) : u <= t
         full == MaxInstancesReached(Len(sched.running[j]))
     IN  sched' = [sched EXCEPT
           !.next_run_time[j] = last + Interval(j),
           !.running[j] =
              IF ~full /\ Ran(j) > 0
                THEN @ \o [k \in 1..Ran(j) |-> NewInstance]
                ELSE @,
           !.skipped[j] = @ \/ full]
  /\ UNCHANGED << enabled, run_vars, store_vars, det_vars, clock, trk,
                  next_fire, horizon, last_run >>

\* sequence s without its k-th element
RemoveAt(s, k) == SubSeq(s, 1, k - 1) \o SubSeq(s, k + 1, Len(s))

\* a running job function handles its next symbol, or returns after the
\* last one; an exception leaving it ends the instance (run_job reports
\* EVENT_JOB_ERROR, the job stays in the job store)
JobStep(j) ==
  /\ sched.phase = "started"
  /\ ~sched.stalled
  /\ \E k \in 1..Len(sched.running[j]) :
       LET inst == sched.running[j][k]
       IN  IF inst.pos > Len(Symbols)
             THEN sched' = [sched EXCEPT
                    !.running[j] = RemoveAt(@, k),
                    !.cycles =
                       IF j = "trading_analysis"
                         THEN CycleEnd(inst, Len(Symbols))
                         ELSE @]
             ELSE \E f \in AnalysisFailures :
                    LET r == JobCall(j, f)
                    IN  IF r.raises
                          THEN sched' = [sched EXCEPT
                                 !.running[j] = RemoveAt(@, k),
                                 !.job_errors[j] = @ + 1,
                                 !.cycles =
                                    IF j = "trading_analysis"
                                      THEN CycleEnd(
                                             [inst EXCEPT !.failed = TRUE],
                                             inst.pos - 1)
                                      ELSE @]
                          ELSE sched' = [sched EXCEPT
                                 !.running[j][k].pos = @ + 1,
                                 !.running[j][k].failed =
                                    @ \/ (j = "trading_analysis"
                                            /\ ~r.returns)]
  /\ UNCHANGED << enabled, run_vars, store_vars, det_vars, clock, trk,
                  next_fire, horizon, last_run >>

\* the process stops being scheduled (suspend, overload) and resumes later
Stall ==
  /\ sched.phase = "started"
  /\ ~sched.stalled
  /\ sched.stalls < MaxStalls
  /\ sched' = [sched EXCEPT !.stalled = TRUE, !.stalls = @ + 1]
  /\ UNCHANGED << enabled, run_vars, store_vars, det_vars, clock, trk,
                  next_fire, horizon, last_run >>

Resume ==
  /\ sched.phase = "started"
  /\ sched.stalled
  /\ \E d \in WakeDelays :
       sched' = [sched EXCEPT !.stalled = FALSE, !.resumed = TRUE,
                              !.wake_delay = d]
  /\ UNCHANGED << enabled, run_vars, store_vars, det_vars, clock, trk,
                  next_fire, horizon, last_run >>

\* time passes; a scheduler that is not stalled wakes up at every
\* next_run_time, so no trigger is left due when the clock moves on
MonitorTick ==
  /\ sched.phase \in {"first", "started"}
  /\ (sched.phase = "started" /\ ~sched.stalled)
       => \A j \in Jobs : clock < sched.next_run_time[j]
  /\ clock < horizon
  /\ clock' = clock + 1
  /\ sched' = [sched EXCEPT !.resumed = FALSE, !.wake_delay = 0]
  /\ UNCHANGED << enabled, run_vars, store_vars, det_vars, trk, next_fire,
                  horizon, last_run >>

(***************************************************************************)
(* Specification of the analysis runs: Spec.                               *)
(***************************************************************************)
NoDetection == [kind |-> "null"]

\* no get_accuracy_report call, no _retry_on_error call
NoReport == [pc |-> "none"]
NoRetry == [pc |-> "none"]

RunIdle ==
  /\ pc = "idle"
  /\ state = initial_state
  /\ attempts = [c \in CollectorSet |-> 0]
  /\ writes = [c \in CollectorSet |-> PENDING]
  /\ calls = NoCalls
  /\ analysis_count = 0
  /\ retval = "none"

TrackersIdle ==
  /\ trk = [t \in Trackers |-> IdleTracker]
  /\ last_run = NoRun

Init ==
  /\ enabled \in BOOLEAN
  /\ RunIdle
  /\ analysis_records = << >>
  /\ price_records = << >>
  /\ signal_performance = << >>
  /\ clock = 0
  /\ horizon = 0
  /\ next_fire = TrackInterval
  /\ TrackersIdle
  /\ sched = NoSchedule
  /\ det_in = NoDetection
  /\ det_out = NoDetection
  /\ report = NoReport
  /\ retry = NoRetry

Next ==
  \/ StartRun
  \/ collect_funding_rate_node
  \/ collect_kline_node
  \/ collect_liquidation_node
  \/ collect_news_node
  \/ Join
  \/ market_signal_detection_node
  \/ format_data_node
  \/ ai_analysis_node
  \/ ReturnFailed
  \/ SaveAnalysis
  \/ AlertStage

Spec == Init /\ [][Next]_vars

(***************************************************************************)
(* Specification of the detector as a function: SpecDetector.              *)
(***************************************************************************)
DetRates == { -12, -10, -6, 0, 6, 10, 12 }
DetTrends == { "up", "down", "flat" }
DetPcts == { -6, -5, 0, 4, 5, 6 }
DetVolumes == { << 0, 0 >>, << 10, 10 >>, << 19, 10 >>, << 20, 10 >> }
DetLongShort == { << 260, 72 >>, << 40, 28 >>, << 190, 65 >>, << 65, 39 >>,
                  << 100, 50 >> }
DetBuySell == { 70, 100, 130 }
DetScores == { -60, -50, -40, 0, 50, 60 }

DetFunding == { FundingSnap(r, t) : r \in DetRates, t \in DetTrends }
                 \cup { EMPTY }
DetKline == { KlineSnap(100, p, v[1], v[2]) : p \in DetPcts, v \in DetVolumes }
               \cup { EMPTY }
DetLiq == { LiqSnap(x[1], x[2], b) : x \in DetLongShort, b \in DetBuySell }
             \cup { LiqDegraded, EMPTY }
DetNews == { NewsSnap(TRUE, s) : s \in DetScores }
              \cup { NewsDegraded, EMPTY }

InitDetector ==
  /\ enabled \in BOOLEAN
  /\ RunIdle
  /\ analysis_records = << >>
  /\ price_records = << >>
  /\ signal_performance = << >>
  /\ clock = 0
  /\ horizon = 0
  /\ next_fire = TrackInterval
  /\ TrackersIdle
  /\ sched = NoSchedule
  /\ det_in \in [kind : {"input"}, fr : DetFunding, kv : DetKline,
                 lq : DetLiq, ns : DetNews]
  /\ det_out = NoDetection
  /\ report = NoReport
  /\ retry = NoRetry

\* invocations of one detector instance
MaxDetects == 2

\* the snapshots of a later invocation: every check fires, or none does
DetAgain ==
  { [kind |-> "input", fr |-> FundingSnap(12, "up"),
     kv |-> KlineSnap(100, 6, 20, 10), lq |-> LiqSnap(260, 72, 130),
     ns |-> NewsSnap(TRUE, 60)],
    [kind |-> "input", fr |-> EMPTY, kv |-> EMPTY, lq |-> LiqDegraded,
     ns |-> NewsDegraded] }

\* the list of the previous invocation kept
KeepSignals(signals) == signals

\* line 40: self.signals = []
ResetSignals(signals) == << >>

\* detect_trading_opportunity on an instance whose self.signals is held
Invocation(held, en, fr, kv, lq, ns) ==
  IF ~en
    THEN [has_opportunity |-> TRUE, signals |-> <<"detection_disabled">>,
          self_signals |-> held]
    ELSE LET sigs == ResetSignals(held)
                       \o SignalTypes(CheckResults(fr, kv, lq, ns))
         IN  [has_opportunity |-> HasQuorum(Len(sigs)), signals |-> sigs,
              self_signals |-> sigs]

\* the result of the n-th invocation: held is self.signals as it began
Result(n, held, d) ==
  [kind |-> "result", has_opportunity |-> d.has_opportunity,
   signals |-> d.signals, self_signals |-> d.self_signals, held |-> held,
   calls |-> n]

\* MarketSignalDetector().detect_trading_opportunity(...) on the inputs;
\* __init__ sets self.signals = []
Detect ==
  /\ det_out = NoDetection
  /\ det_out' = Result(1, << >>,
                       Invocation(<< >>, enabled, det_in.fr, det_in.kv,
                                  det_in.lq, det_in.ns))
  /\ UNCHANGED << enabled, det_in, report, retry, run_vars, store_vars,
                  trk_vars >>

\* the same instance invoked again, on the same or on other snapshots
DetectAgain ==
  /\ det_out.kind = "result"
  /\ det_out.calls < MaxDetects
  /\ \E x \in DetAgain \cup { det_in } :
       /\ det_in' = x
       /\ det_out' = Result(det_out.calls + 1, det_out.self_signals,
                            Invocation(det_out.self_signals, enabled,
                                       x.fr, x.kv, x.lq, x.ns))
  /\ UNCHANGED << enabled, report, retry, run_vars, store_vars, trk_vars >>

NextDetector ==
  \/ Detect
  \/ DetectAgain

SpecDetector == InitDetector /\ [][NextDetector]_vars

(***************************************************************************)
(* Specifications of the tracker over a store of open rows.                *)
(***************************************************************************)
MaxRows == 2
MaxDrift == 1

\* an opportunity record with the advisory fields of one tracked signal
TrackedAnalysis(id, a) ==
  [id |-> id, timestamp |-> a.entry_time, current_price |-> 100,
   has_trading_opportunity |-> TRUE, signal_count |-> 0,
   trend_direction |-> a.trend, target_price |-> a.target,
   stop_loss |-> a.stop, full_analysis |-> "llm"]

RowSpec(trend, target, stop, entry_time) ==
  [trend |-> trend, target |-> target, stop |-> stop, entry_time |-> entry_time]

\* the store holds the open rows described by f (a sequence of RowSpec)
StoreOf(f) ==
  /\ analysis_records = [i \in DOMAIN f |-> TrackedAnalysis(i, f[i])]
  /\ signal_performance =
       [i \in DOMAIN f |-> OpenRow(i, i, 100, f[i].entry_time)]
  /\ price_records = << >>

EntryTimes == { 0, 1 }

TrackerRows ==
  { RowSpec(x[1], x[2], x[3], e) :
      x \in { << "bull", 110, 90 >>, << "bear", 90, 110 >>,
              << "side", NoPrice, NoPrice >>, << "bull", NoPrice, NoPrice >> },
      e \in EntryTimes }

TrackerPrices == { 90, 100, 111 }

\* a day is almost over, or just over, for the rows entered at 0 and 1
TrackerClocks == { 2, Timeout - 1, Timeout }

InitTracker ==
  /\ enabled = TRUE
  /\ RunIdle
  /\ \E n \in 1..MaxRows : \E f \in [1..n -> TrackerRows] : StoreOf(f)
  /\ clock \in TrackerClocks
  /\ horizon = clock + MaxDrift
  /\ next_fire = 0
  /\ TrackersIdle
  /\ sched = NoSchedule
  /\ det_in = NoDetection
  /\ det_out = NoDetection
  /\ report = NoReport
  /\ retry = NoRetry

\* one invocation after the other, over up to MaxRows rows
NextTracker ==
  \/ Tick
  \/ Invoke("job")
  \/ TrackerFetchPrice("job", TrackerPrices)
  \/ TrackerFetchFail("job")
  \/ TrackerUpdate("job")

SpecTracker == InitTracker /\ [][NextTracker]_vars

\* the scheduled job and a CLI refresh running concurrently over one row
InitConcurrent ==
  /\ enabled = TRUE
  /\ RunIdle
  /\ \E f \in [1..1 -> TrackerRows] : StoreOf(f)
  /\ clock \in TrackerClocks
  /\ horizon = clock + MaxDrift
  /\ next_fire = 0
  /\ TrackersIdle
  /\ sched = NoSchedule
  /\ det_in = NoDetection
  /\ det_out = NoDetection
  /\ report = NoReport
  /\ retry = NoRetry

NextConcurrent ==
  \/ Tick
  \/ \E t \in Trackers : Invoke(t)
  \/ \E t \in Trackers : TrackerFetchPrice(t, TrackerPrices)
  \/ \E t \in Trackers : TrackerFetchFail(t)
  \/ \E t \in Trackers : TrackerUpdate(t)

SpecConcurrent == InitConcurrent /\ [][NextConcurrent]_vars

\* one row of every kind, one invocation: the tracker as a function
ClassifyTrends == { "bull", "bear", "side", "none" }
ClassifyLevels == { NoPrice, 90, 110 }
ClassifyPrices == { 89, 90, 100, 110, 111 }

ClassifyRows ==
  { RowSpec(tr, tg, st, 0) :
      tr \in ClassifyTrends, tg \in ClassifyLevels, st \in ClassifyLevels }

InitClassify ==
  /\ enabled = TRUE
  /\ RunIdle
  /\ \E f \in [1..1 -> ClassifyRows] : StoreOf(f)
  /\ clock \in { 2, Timeout - 1, Timeout }
  /\ horizon = clock
  /\ next_fire = 0
  /\ TrackersIdle
  /\ sched = NoSchedule
  /\ det_in = NoDetection
  /\ det_out = NoDetection
  /\ report = NoReport
  /\ retry = NoRetry

NextClassify ==
  \/ Invoke("job")
  \/ TrackerFetchPrice("job", ClassifyPrices)
  \/ TrackerUpdate("job")

SpecClassify == InitClassify /\ [][NextClassify]_vars

\* the hourly signal_update job alone, punctual, its price fetch succeeding
HourlyHorizon == (TIMEOUT_HOURS + 3) * TicksPerHour

HourlyRows ==
  { RowSpec(x[1], x[2], x[3], e) :
      x \in { << "bull", 110, 90 >>, << "bull", NoPrice, NoPrice >> },
      e \in EntryTimes }

HourlyPrices == { 100, 111 }

InitHourly ==
  /\ enabled = TRUE
  /\ RunIdle
  /\ \E f \in [1..1 -> HourlyRows] : StoreOf(f)
  /\ clock = 1
  /\ horizon = HourlyHorizon
  /\ next_fire = TrackInterval
  /\ TrackersIdle
  /\ sched = NoSchedule
  /\ det_in = NoDetection
  /\ det_out = NoDetection
  /\ report = NoReport
  /\ retry = NoRetry

NextHourly ==
  \/ PunctualTick
  \/ signal_update_job
  \/ TrackerFetchPrice("job", HourlyPrices)
  \/ TrackerUpdate("job")

SpecHourly == InitHourly /\ [][NextHourly]_vars

\* a report requested while the signal_update job may be running: up to
\* MaxRows open rows, the day of the rows entered at 0 just over
ReportRowSpecs ==
  { RowSpec("bull", 110, 90, 0), RowSpec("side", NoPrice, NoPrice, 0),
    RowSpec("bear", 90, 110, 1) }

ReportPrices == { 90, 111 }

ReportDays == { 0, REPORT_DAYS }

InitReport ==
  /\ enabled = TRUE
  /\ RunIdle
  /\ \E n \in 0..MaxRows : \E f \in [1..n -> ReportRowSpecs] : StoreOf(f)
  /\ clock = Timeout
  /\ horizon = clock
  /\ next_fire = 0
  /\ TrackersIdle
  /\ sched = NoSchedule
  /\ det_in = NoDetection
  /\ det_out = NoDetection
  /\ report = NoReport
  /\ retry = NoRetry

NextReport ==
  \/ Invoke("job")
  \/ TrackerFetchPrice("job", ReportPrices)
  \/ TrackerFetchFail("job")
  \/ TrackerUpdate("job")
  \/ TrackerUpdateFails("job")
  \/ \E days \in ReportDays : ReportCall(days)
  \/ ReportQuery
  \/ ReportReturn

SpecReport == InitReport /\ [][NextReport]_vars

(***************************************************************************)
(* BaseCollector._retry_on_error under a collector's _fetch: SpecRetry.    *)
(***************************************************************************)
\* the collectors whose collect() is followed
RetryCollectors == { "funding", "kline", "liquidation" }

\* what one round of upstream requests does: it answers, or fails
UpstreamErrors == { "timeout", "http_error", "empty" }

UpstreamOutcomes(c) ==
  { [kind |-> "ok", value |-> v] :
      v \in CASE c = "funding" -> RunFunding
             [] c = "kline" -> RunKline
             [] c = "liquidation" -> RunLiq }
    \cup { [kind |-> "fail", error |-> e] : e \in UpstreamErrors }

\* the closure handed to _retry_on_error. The _fetch of FundingRateCollector
\* and of KlineVolumeCollector lets the failure out; LiquidationCollector's
\* catches it and returns the placeholder
_fetch(c, up) ==
  IF up.kind = "ok" THEN [kind |-> "return", value |-> up.value]
  ELSE IF c = "liquidation"
    THEN [kind |-> "return", value |-> LiqDegraded]
  ELSE [kind |-> "raise", error |-> up.error]

\* collect() entered: the loop is at attempt 0
RetryCall(c) ==
  /\ retry.pc = "idle"
  /\ retry' = [pc |-> "attempt", collector |-> c, attempt |-> 0,
               upstream |-> << >>, raised |-> << >>, sleeps |-> 0,
               result |-> NULL]
  /\ UNCHANGED << enabled, det_in, det_out, report, run_vars, store_vars,
                  trk_vars >>

\* lines 17-28: func is called; its value is returned, or its failure is
\* caught and, on the last attempt, raised again
RetryAttempt ==
  /\ retry.pc = "attempt"
  /\ \E up \in UpstreamOutcomes(retry.collector) :
       LET r == _fetch(retry.collector, up)
           seen == [retry EXCEPT !.upstream = Append(@, up.kind)]
       IN  IF r.kind = "return"
             THEN retry' = [seen EXCEPT !.pc = "returned",
                                        !.result = r.value]
           ELSE IF ~RetryExhausted(retry.attempt)
             THEN retry' = [seen EXCEPT !.pc = "sleeping",
                                        !.raised = Append(@, r.error)]
           ELSE retry' = [seen EXCEPT !.pc = "raised",
                                      !.raised = Append(@, r.error),
                                      !.result = [kind |-> "error",
                                                  error |-> r.error]]
  /\ UNCHANGED << enabled, det_in, det_out, report, run_vars, store_vars,
                  trk_vars >>

\* line 25: time.sleep(self.retry_delay) is over, the loop goes on
RetrySleep ==
  /\ retry.pc = "sleeping"
  /\ retry' = [retry EXCEPT !.pc = "attempt", !.attempt = @ + 1,
                            !.sleeps = @ + 1]
  /\ UNCHANGED << enabled, det_in, det_out, report, run_vars, store_vars,
                  trk_vars >>

InitRetry ==
  /\ enabled = TRUE
  /\ RunIdle
  /\ analysis_records = << >>
  /\ price_records = << >>
  /\ signal_performance = << >>
  /\ clock = 0
  /\ horizon = 0
  /\ next_fire = TrackInterval
  /\ TrackersIdle
  /\ sched = NoSchedule
  /\ det_in = NoDetection
  /\ det_out = NoDetection
  /\ report = NoReport
  /\ retry = [pc |-> "idle"]

NextRetry ==
  \/ \E c \in RetryCollectors : RetryCall(c)
  \/ RetryAttempt
  \/ RetrySleep

SpecRetry == InitRetry /\ [][NextRetry]_vars

\* run_monitor_mode: both jobs, a process stall, failures in every call
MonitorHorizon == 2 * TrackInterval

InitMonitor ==
  /\ enabled = TRUE
  /\ RunIdle
  /\ analysis_records = << >>
  /\ price_records = << >>
  /\ signal_performance = << >>
  /\ clock = 0
  /\ horizon = MonitorHorizon
  /\ next_fire = TrackInterval
  /\ TrackersIdle
  /\ sched = SchedulerAdded
  /\ det_in = NoDetection
  /\ det_out = NoDetection
  /\ report = NoReport
  /\ retry = NoRetry

NextMonitor ==
  \/ FirstAnalysis
  \/ SchedulerStart
  \/ \E j \in Jobs : ProcessJob(j)
  \/ \E j \in Jobs : JobStep(j)
  \/ Stall
  \/ Resume
  \/ MonitorTick

SpecMonitor == InitMonitor /\ [][NextMonitor]_vars

(***************************************************************************)
(* Properties.                                                             *)
(***************************************************************************)

\* number of the five checks that produced a signal on the detector inputs
SignalCount ==
  Cardinality({ i \in 1..5 :
    CheckResults(det_in.fr, det_in.kv, det_in.lq, det_in.ns)[i] # NOSIGNAL })

\* C1: with detection enabled the detector reports an opportunity exactly
\* when the number k of checks that fired reaches MIN_SIGNAL_COUNT; with
\* detection disabled it reports an opportunity for every input.
C1_GateIsQuorum ==
  det_out.kind = "result" =>
    IF enabled
      THEN det_out.has_opportunity = (SignalCount >= MIN_SIGNAL_COUNT)
      ELSE det_out.has_opportunity = TRUE

\* exactly MIN_SIGNAL_COUNT checks fired and the gate opened
C1_Witness ==
  /\ det_out.kind = "result"
  /\ enabled
  /\ SignalCount = MIN_SIGNAL_COUNT
  /\ det_out.has_opportunity

\* the workflow of the current run is past ai_analysis
AiDone == pc \in {"end", "saved"} \/ (pc = "idle" /\ retval # "none")

\* C2: in a run the Reasoner is invoked at most once, never when
\* has_trading_opportunity is false, and in that case the run's result is
\* the synthetic payload built from the signal summary.
C2_ReasonerGated ==
  /\ calls.reasoner <= 1
  /\ state.has_trading_opportunity = "False" =>
       /\ calls.reasoner = 0
       /\ AiDone => state.analysis_result =
                      [kind |-> "synthetic", summary |-> state.signal_summary]

\* a run without opportunity has ended with the synthetic payload
C2_Witness ==
  /\ pc = "end"
  /\ state.has_trading_opportunity = "False"
  /\ state.analysis_result.kind = "synthetic"
  /\ state.signal_summary.kind = "no_opportunity"
  /\ calls.reasoner = 0

\* a collector node is terminal: a snapshot, or null plus one error string
Terminal(r) ==
  /\ r.kind = "return"
  /\ \/ Truthy(r.value) /\ r.errors = << >>
     \/ r.value = NULL /\ Len(r.errors) = 1

\* C3: whatever the interleaving of the four collectors, the detection
\* stage and every later stage start only after all four are terminal, and
\* the detection stage runs exactly once per run.
C3_JoinIsBarrier ==
  /\ calls.detection_node <= 1
  /\ (pc \in {"detect", "format", "ai"} \/ AiDone
        \/ calls.detection_node > 0 \/ calls.format > 0)
       => \A c \in CollectorSet : Terminal(writes[c])
  /\ (pc \in {"format", "ai"} \/ AiDone) => calls.detection_node = 1
  /\ pc \in {"collect", "detect"} => calls.detection_node = 0

\* detection has run once, after a collector that needed retries
C3_Witness ==
  /\ pc = "format"
  /\ calls.detection_node = 1
  /\ attempts["collect_kline"] = MAX_RETRIES - 1
  /\ Truthy(state.kline_volume)
  /\ state.news_sentiment = NULL

\* a load-bearing collector of the current run failed
LoadBearingFailed ==
  \/ writes["collect_funding_rate"] = NodeReturn(NULL, << "funding_failed" >>)
  \/ writes["collect_kline"] = NodeReturn(NULL, << "kline_failed" >>)

\* C4: when the funding-rate or price/volume collector fails after its
\* retries are exhausted, the Detector is not executed, the Reasoner is not
\* invoked, the run ends with a null result, and nothing is persisted.
C4_LoadBearingAborts ==
  /\ \A c \in {"collect_funding_rate", "collect_kline"} :
       (writes[c] # PENDING /\ writes[c].value = NULL)
         => attempts[c] = MAX_RETRIES
  /\ LoadBearingFailed =>
       /\ calls.detector = 0
       /\ calls.reasoner = 0
       /\ calls.save = 0
       /\ pc # "saved"
       /\ AiDone => state.analysis_result = NULL
       /\ (pc = "idle" /\ retval # "none") => retval = "False"
       /\ Len(analysis_records) < analysis_count
       /\ Len(price_records) < analysis_count
       /\ Len(signal_performance) < analysis_count

\* the second run returned False after the kline collector was exhausted,
\* the store still holding only the record of the first run
C4_Witness ==
  /\ pc = "idle"
  /\ retval = "False"
  /\ analysis_count = 2
  /\ Len(analysis_records) = 1
  /\ writes["collect_kline"] = NodeReturn(NULL, << "kline_failed" >>)
  /\ attempts["collect_kline"] = MAX_RETRIES
  /\ Truthy(state.funding_rate)
  /\ state.analysis_result = NULL

\* C5: a failure of the market-pressure or sentiment stage never aborts the
\* run: when both load-bearing collectors succeeded and the Reasoner did
\* not fail, the run ends with a non-null analysis result.
C5_OptionalFailureAbsorbed ==
  (/\ pc = "end"
   /\ Truthy(state.funding_rate)
   /\ Truthy(state.kline_volume)
   /\ ~(calls.reasoner = 1 /\ state.analysis_result = NULL))
    => state.analysis_result # NULL

\* the Reasoner was invoked in the current run and did not return a text
ReasonerFailed == calls.reasoner = 1 /\ state.analysis_result.kind # "llm"

\* C6: save_analysis is called only after the workflow ended with a
\* non-null result; when the Reasoner fails the result is null, an error
\* string is recorded and no row of any table is written for that run.
C6_PersistAfterResult ==
  /\ calls.save <= 1
  /\ calls.save = 1 => (AiDone /\ pc # "end" /\ Truthy(state.analysis_result))
  /\ pc = "saved" => calls.save = 1
  /\ (AiDone /\ ReasonerFailed) =>
       /\ state.analysis_result = NULL
       /\ Len(state.errors) > 0
       /\ state.errors[Len(state.errors)] = "ai_failed"
       /\ calls.save = 0
       /\ Len(analysis_records) < analysis_count
       /\ Len(price_records) < analysis_count
       /\ Len(signal_performance) < analysis_count

\* the second run returned False because the Reasoner raised; the store
\* holds the rows of the first run only
C6_Witness ==
  /\ pc = "idle"
  /\ retval = "False"
  /\ ReasonerFailed
  /\ analysis_count = 2
  /\ Len(analysis_records) = 1
  /\ Len(signal_performance) = 1
  /\ calls.save = 0

\* row i of signal_performance is still open
IsOpen(i) == signal_performance[i].exit_price = NoPrice

\* C7: under the hourly signal_update job every open outcome row is
\* eventually closed: a row is force-closed once it is 24 hours old, so no
\* row stays open past the first hourly run after that age.
C7_EveryRowClosed ==
  \A i \in DOMAIN signal_performance :
    IsOpen(i) =>
      clock - signal_performance[i].entry_time
        <= Timeout + TrackInterval + MaxRunTicks

\* C8: under concurrent tracker invocations a row is closed at most once:
\* once exit_price is set, no field of the row changes again.
C8_ClosedAtMostOnce ==
  [][\A i \in DOMAIN signal_performance :
       ~IsOpen(i) => signal_performance'[i] = signal_performance[i]]_vars

\* an update_signal_performance run ends with this step
RunEnds ==
  /\ trk'["job"].pc = "idle"
  /\ trk["job"].pc # "idle" \/ last_run' # last_run

\* whatever a run selects is still open
SelectsOpenRows ==
  (trk["job"].pc = "idle" /\ trk'["job"].pc = "selected") =>
    \A k \in 1..Len(trk'["job"].pending) : IsOpen(trk'["job"].pending[k])

\* no open row has become 24 hours old since the previous run ended
NoneTimedOutSince(then) ==
  \A i \in DOMAIN signal_performance :
    IsOpen(i) =>
      (TimedOut(signal_performance[i].entry_time, clock)
         => TimedOut(signal_performance[i].entry_time, then))

PctIsChange(row) ==
  /\ row.price_change_pct * row.entry_price
       <= (row.exit_price - row.entry_price) * 10000
  /\ (row.exit_price - row.entry_price) * 10000
       < (row.price_change_pct + 1) * row.entry_price

Flags(row) == << row.hit_target, row.hit_stop_loss, row.is_profitable >>

\* C10: a closed bullish row has hit_target and is_profitable when the
\* price is at or above the target, else hit_stop_loss and not
\* is_profitable when the price is at or below the stop, else is_profitable
\* exactly when the percent change is positive; a bearish row mirrors this
\* (target at or below, stop at or above, profitable when negative).
C10_Classification ==
  \A i \in DOMAIN signal_performance :
    ~IsOpen(i) =>
      LET row == signal_performance[i]
          a == analysis_records[row.analysis_id]
          p == row.exit_price
          pct == row.price_change_pct
      IN  /\ PctIsChange(row)
          /\ a.trend_direction = "bull" =>
               IF a.target_price # NoPrice /\ p >= a.target_price
                 THEN Flags(row) = << TRUE, FALSE, TRUE >>
               ELSE IF a.stop_loss # NoPrice /\ p <= a.stop_loss
                 THEN Flags(row) = << FALSE, TRUE, FALSE >>
               ELSE Flags(row) = << FALSE, FALSE, pct > 0 >>
          /\ a.trend_direction = "bear" =>
               IF a.target_price # NoPrice /\ p <= a.target_price
                 THEN Flags(row) = << TRUE, FALSE, TRUE >>
               ELSE IF a.stop_loss # NoPrice /\ p >= a.stop_loss
                 THEN Flags(row) = << FALSE, TRUE, FALSE >>
               ELSE Flags(row) = << FALSE, FALSE, pct < 0 >>

\* entry 100, bullish, target 110, price 111: closed with hit_target,
\* is_profitable and a percent change of 11.00
C10_Witness ==
  /\ Len(signal_performance) = 1
  /\ analysis_records[1].trend_direction = "bull"
  /\ analysis_records[1].target_price = 110
  /\ signal_performance[1].entry_price = 100
  /\ signal_performance[1].exit_price = 111
  /\ signal_performance[1].hit_target
  /\ signal_performance[1].is_profitable
  /\ signal_performance[1].price_change_pct = 1100

\* the clock at which the run that ends with this step read its cutoff
RunStart ==
  IF trk["job"].pc = "idle" THEN clock ELSE trk["job"].cutoff + Lookback

\* at price p row i crosses neither its target nor its stop
NotCrossed(i, p) ==
  LET c == ClassifyRow(signal_performance[i], p)
  IN  ~c.hit_target /\ ~c.hit_stop_loss

\* is_profitable decided by the sign of the percent change alone
ProfitableBySign(row, trend) ==
  row.is_profitable =
    IF trend = "bull" THEN row.price_change_pct > 0
    ELSE IF trend = "bear" THEN row.price_change_pct < 0
    ELSE FALSE

\* C11: an open row entered 24 hours and one time unit before a tracker
\* run starts, whose target and stop are not crossed at the run's price, is
\* closed by that run as a timeout: exit price and time set, hit_target and
\* hit_stop_loss false, is_profitable decided by the sign of the percent
\* change. (A run whose price fetch fails closes nothing and is excluded.)
C11_TimeoutBoundary ==
  [][\A i \in DOMAIN signal_performance :
       (/\ RunEnds
        /\ trk["job"].pc # "selected"
        /\ IsOpen(i)
        /\ RunStart - signal_performance[i].entry_time = Timeout + 1
        /\ NotCrossed(i, last_run'.price))
       => /\ signal_performance'[i].exit_price = last_run'.price
          /\ signal_performance'[i].exit_price # NoPrice
          /\ signal_performance'[i].exit_time = clock
          /\ ~signal_performance'[i].hit_target
          /\ ~signal_performance'[i].hit_stop_loss
          /\ ProfitableBySign(signal_performance'[i],
                              AnalysisOf(signal_performance[i]).trend_direction)]_vars

\* C12: under the scheduler at most one instance of the analysis job and
\* at most one instance of the tracking job is in flight (the main-thread
\* first analysis included), and a trigger that fires while the previous
\* run is still executing starts nothing.
C12_SingleInstance ==
  [][\A j \in Jobs :
       /\ InFlight(j) <= MAX_INSTANCES
       /\ (InFlight(j) > 0 /\ sched.phase = "started"
             /\ sched'.next_run_time[j] # sched.next_run_time[j])
            => sched'.running[j] = sched.running[j]]_vars

\* both jobs have had a trigger fire during a run, and a run is in flight
C12_Witness ==
  /\ sched.phase = "started"
  /\ \A j \in Jobs : sched.skipped[j]
  /\ \E j \in Jobs : Len(sched.running[j]) = 1

\* C13: when the scheduler comes back from a stall that spanned two or
\* more trigger times of a job with no instance in flight, the job is
\* executed exactly once as catch-up.
C13_CoalescedCatchUp ==
  [][\A j \in Jobs :
       (/\ sched.phase = "started"
        /\ sched.resumed
        /\ sched'.next_run_time[j] # sched.next_run_time[j]
        /\ Cardinality(Due(j)) >= 2
        /\ InFlight(j) = 0)
       => Len(sched'.running[j]) = 1]_vars

\* C14: whatever fails for a symbol, no exception leaves the analysis job
\* (neither the first call in the main thread nor a scheduled run), every
\* cycle goes on to its last symbol, and after a failed cycle the next
\* trigger the scheduler wakes up for starts the job again.
C14_FailureDoesNotBlock ==
  /\ [](sched.phase # "none"
          => /\ sched.phase # "crashed"
             /\ sched.job_errors["trading_analysis"] = 0
             /\ ~sched.cycles.short)
  /\ [][(/\ sched.phase = "started"
         /\ sched.cycles.failed
         /\ ~sched.resumed
         /\ InFlight("trading_analysis") = 0
         /\ sched'.next_run_time["trading_analysis"]
              # sched.next_run_time["trading_analysis"])
        => Len(sched'.running["trading_analysis"]) = 1]_vars

\* a cycle with a failing symbol was followed by a scheduled cycle that
\* analysed every symbol
C14_Witness ==
  /\ sched.phase = "started"
  /\ sched.cycles.failed
  /\ sched.cycles.recovered
  /\ ~sched.cycles.short

\* the Detector raised in the run whose state is held
DetectorRaised == state.signal_summary.kind = "detection_failed"

\* number of entries of s equal to e
Count(s, e) == Cardinality({ i \in DOMAIN s : s[i] = e })

\* C17: when the Detector raises, the detection node sets the opportunity
\* flag to true and adds exactly one error string, and the pipeline goes on:
\* the Formatter runs, the AI node does not skip the Reasoner for lack of an
\* opportunity, and the Reasoner is called with whatever the Formatter
\* produced.
C17_DetectionFailsOpen ==
  DetectorRaised
    => /\ state.has_trading_opportunity = "True"
       /\ Count(state.errors, "detection_failed") = 1
       /\ calls.detector = 1
       /\ pc \in { "format", "ai", "end", "saved", "idle" }
       /\ pc # "format" => calls.format = 1
       /\ pc \notin { "format", "ai" }
            => /\ state.analysis_result.kind # "synthetic"
               /\ Truthy(state.formatted_data) <=> calls.reasoner = 1

\* a run whose Detector raised went on to a Reasoner text
C17_Witness ==
  /\ DetectorRaised
  /\ pc = "end"
  /\ calls.format = 1
  /\ calls.reasoner = 1
  /\ state.analysis_result.kind = "llm"
  /\ state.errors = << "detection_failed" >>

\* the field a stage leaves in the state, by the stage's error string
StageField ==
  [funding_failed |-> "funding_rate", kline_failed |-> "kline_volume",
   news_failed |-> "news_sentiment", format_failed |-> "formatted_data",
   ai_failed |-> "analysis_result"]

IsPrefix(s, t) == Len(s) <= Len(t) /\ SubSeq(t, 1, Len(s)) = s

\* C19: within a run the error list only grows: every step leaves the old
\* list as a prefix of the new one; the join adds the error string of every
\* collector that failed, whatever the order in which the collectors
\* finished, and a detection, format or AI node that fails appends exactly
\* its own string, with the gate open or closed.
C19_ErrorsOnlyGrow ==
  [][pc # "idle"
       => /\ IsPrefix(state.errors, state'.errors)
          /\ (pc = "collect" /\ pc' = "detect")
               => /\ state.errors = << >>
                  /\ \A c \in CollectorSet :
                       \A i \in DOMAIN ErrorsOf(writes[c]) :
                         Count(state'.errors, writes[c].errors[i]) = 1
                  /\ Len(state'.errors)
                       = Cardinality({ c \in CollectorSet :
                                         ErrorsOf(writes[c]) # << >> })
          /\ (pc = "detect" /\ state'.signal_summary.kind = "detection_failed")
               => state'.errors = state.errors \o << "detection_failed" >>
          /\ (pc = "format" /\ state'.formatted_data = NULL)
               => state'.errors = state.errors \o << "format_failed" >>
          /\ (pc = "ai" /\ state'.analysis_result = NULL)
               => state'.errors = state.errors \o << "ai_failed" >>]_vars

\* every failing stage of one run has left its string, in stage order
C19_Witness ==
  /\ pc = "end"
  /\ state.errors = << "funding_failed", "kline_failed", "news_failed",
                       "format_failed", "ai_failed" >>

\* C15: once a run with a non-null result has been persisted, send_alert is
\* invoked exactly when the run's opportunity flag is true, and never when
\* it is false.
C15_AlertIffOpportunity ==
  [][(pc = "saved" /\ pc' = "idle")
       => /\ Len(analysis_records) >= 1
          /\ HasResult(state)
          /\ calls'.alert
               = IF state.has_trading_opportunity = "True"
                   THEN calls.alert + 1
                   ELSE calls.alert]_vars

\* the alert stage of the run whose state is held has failed
AlertFailed == calls.alert_failed > 0

\* C16: a failure in the alert stage is swallowed: the record persisted for
\* the run remains and analyze_symbol returns true.
C16_AlertFailureSwallowed ==
  (pc = "idle" /\ AlertFailed)
    => /\ retval = "True"
       /\ \E i \in DOMAIN analysis_records :
            analysis_records[i].timestamp = clock

\* C20: a signal_performance row is created only by the save of an analysis
\* whose opportunity flag is true: the new row is open and references the
\* analysis record written by the same save, every row references a record
\* whose flag is true, and the save of a run whose flag is false adds none.
C20_RowsOnlyForOpportunities ==
  /\ [](\A i \in DOMAIN signal_performance :
          /\ signal_performance[i].analysis_id \in DOMAIN analysis_records
          /\ AnalysisOf(signal_performance[i]).has_trading_opportunity)
  /\ [][/\ Len(signal_performance') >= Len(signal_performance)
        /\ Len(signal_performance') > Len(signal_performance)
             => /\ pc = "end"
                /\ state.has_trading_opportunity = "True"
                /\ Len(signal_performance') = Len(signal_performance) + 1
                /\ Len(analysis_records') = Len(analysis_records) + 1
                /\ LET row == signal_performance'[Len(signal_performance')]
                   IN  /\ row.analysis_id = Len(analysis_records')
                       /\ row.exit_price = NoPrice
                       /\ row.entry_time = clock
                       /\ row = OpenRow(row.id, row.analysis_id,
                                        row.entry_price, row.entry_time)
        /\ (pc = "end" /\ state.has_trading_opportunity # "True")
             => signal_performance' = signal_performance]_vars

\* one saved analysis without an opportunity and without a row, one with an
\* opportunity and its open row
C20_Witness ==
  /\ Len(analysis_records) = 2
  /\ Len(signal_performance) = 1
  /\ \E i \in DOMAIN analysis_records :
       ~analysis_records[i].has_trading_opportunity
  /\ signal_performance[1].exit_price = NoPrice

\* number of signals the Detector triggered in the run whose state is held
DetectorSignals(st) ==
  IF st.signal_summary.kind \in { "opportunity", "no_opportunity" }
    THEN st.signal_summary.count
    ELSE 0

\* C21: the AnalysisRecord a save writes carries, when its opportunity
\* flag is true, the number of signals the Detector triggered in that run
\* as signal_count, and zero when the flag is false.
C21_SignalCountMatches ==
  [][Len(analysis_records') > Len(analysis_records)
       => LET r == analysis_records'[Len(analysis_records')]
          IN  r.signal_count = IF r.has_trading_opportunity
                                 THEN DetectorSignals(state)
                                 ELSE 0]_vars

\* C22: every report get_accuracy_report returns is a full report (no
\* division error): with no closed row its accuracy and target hit rate
\* are 0, with closed rows its accuracy is profitable / closed as a
\* percentage, and always 0 <= profitable <= closed <= total and
\* pending = total - closed.
C22_ReportConsistent ==
  report.pc = "returned"
    => /\ report.out.kind = "report"
       /\ report.out.closed_signals = 0
            => /\ report.out.accuracy = 0
               /\ report.out.target_hit_rate = 0
       /\ report.out.closed_signals > 0
            => report.out.accuracy
                 = (report.out.profitable_signals * 10000)
                     \div report.out.closed_signals
       /\ 0 <= report.out.profitable_signals
       /\ report.out.profitable_signals <= report.out.closed_signals
       /\ report.out.closed_signals <= report.out.total_signals
       /\ report.out.pending_signals
            = report.out.total_signals - report.out.closed_signals

\* rows that a step closed durably: open before it, closed in the store after
DurablyClosed ==
  {i \in DOMAIN signal_performance :
     /\ signal_performance[i].exit_price = NoPrice
     /\ signal_performance'[i].exit_price # NoPrice}

\* C28: the value an invocation of update_signal_performance returns is the
\* number of rows it closed durably; rows whose update was rolled back after
\* an exception are not counted
C28_ReturnCountsDurableRows ==
  [][trk["job"].pc = "priced" /\ trk'["job"].pc = "idle"
       => last_run'.ret = Cardinality(DurablyClosed)]_vars

\* the outcome rows that reference an analysis record
OutcomeRows(id) ==
  {i \in DOMAIN signal_performance : signal_performance[i].analysis_id = id}

\* C29: in every store state each analysis record with the opportunity flag
\* true and a price has exactly one outcome row, also when save_analysis
\* failed between its writes
C29_OneOutcomePerOpportunity ==
  \A n \in DOMAIN analysis_records :
    (/\ analysis_records[n].has_trading_opportunity = TRUE
     /\ analysis_records[n].current_price # NoPrice)
      => Cardinality(OutcomeRows(analysis_records[n].id)) = 1

\* rows whose analysis names neither a bullish nor a bearish trend
Neutral(i) ==
  AnalysisOf(signal_performance[i]).trend_direction \notin { "bull", "bear" }

\* C30: a row whose trend is neither bullish nor bearish never gets a target
\* or stop flag and is never marked profitable, whatever the sign of the
\* price change; it is closed by the 24 hour timeout only
C30_NeutralOnlyTimesOut ==
  \A i \in DOMAIN signal_performance :
    (Neutral(i) /\ ~IsOpen(i)) =>
      /\ ~signal_performance[i].hit_target
      /\ ~signal_performance[i].hit_stop_loss
      /\ ~signal_performance[i].is_profitable
      /\ TimedOut(signal_performance[i].entry_time,
                  signal_performance[i].exit_time)

\* a sideways row with a target below the price, closed at a higher price
C30_Witness ==
  \E i \in DOMAIN signal_performance :
    /\ Neutral(i)
    /\ ~IsOpen(i)
    /\ signal_performance[i].price_change_pct > 0
    /\ AnalysisOf(signal_performance[i]).target_price = 110
    /\ signal_performance[i].exit_price = 111

\* a snapshot that carries no data: None, the empty dict, or the placeholder
\* a collector returns with data_available false
Degraded(snap) ==
  \/ ~Truthy(snap)
  \/ snap.kind \in { "liquidation", "news" } /\ ~snap.data_available

AllDegraded ==
  /\ Degraded(det_in.fr)
  /\ Degraded(det_in.kv)
  /\ Degraded(det_in.lq)
  /\ Degraded(det_in.ns)

\* the signal types each snapshot can give rise to
TypesOf(field) ==
  CASE field = "fr" -> { "funding_extreme_long", "funding_extreme_short",
                         "funding_fast_rise", "funding_fast_fall" }
    [] field = "kv" -> { "price_surge", "price_plunge", "volume_surge" }
    [] field = "lq" -> { "long_crowded", "short_crowded",
                         "taker_buy_strong", "taker_sell_strong" }
    [] field = "ns" -> { "news_very_positive", "news_very_negative" }

Returned == { det_out.signals[i] : i \in 1..Len(det_out.signals) }

\* no signal in the result stems from a degraded snapshot
DegradedSilent ==
  \A field \in { "fr", "kv", "lq", "ns" } :
    Degraded(det_in[field]) => Returned \cap TypesOf(field) = {}

\* C24 as stated: with all four snapshots degraded the Detector returns no
\* signal and has_opportunity false, and a degraded snapshot never produces
\* a signal
C24_DegradedGivesNothing ==
  det_out.kind = "result" =>
    /\ AllDegraded => det_out.signals = << >> /\ ~det_out.has_opportunity
    /\ DegradedSilent

\* C24 amended: the same with detection enabled; with detection disabled the
\* Detector returns has_opportunity true and the one entry that says so
C24_DegradedGivesNothingWhenEnabled ==
  det_out.kind = "result" =>
    IF enabled
      THEN /\ AllDegraded =>
                det_out.signals = << >> /\ ~det_out.has_opportunity
           /\ DegradedSilent
      ELSE /\ det_out.has_opportunity
           /\ det_out.signals = << "detection_disabled" >>

\* the Detector has answered on four degraded snapshots, two of them the
\* collectors' placeholders
C24_Witness ==
  /\ det_out.kind = "result"
  /\ enabled
  /\ AllDegraded
  /\ det_in.lq = LiqDegraded
  /\ det_in.ns = NewsDegraded
  /\ ~det_out.has_opportunity

\* C25: a funding snapshot whose rate is above the extreme threshold, trend
\* rising, makes the funding check return the strong extreme-long signal,
\* and the Detector lists it and no velocity signal
C25_ExtremeBeatsVelocity ==
  (/\ Truthy(det_in.fr)
   /\ det_in.fr.current_rate > FUNDING_RATE_EXTREME_THRESHOLD
   /\ det_in.fr.trend = "up") =>
    /\ _check_funding_rate_signal(det_in.fr) =
         Signal("funding_extreme_long", "strong", det_in.fr.current_rate)
    /\ (det_out.kind = "result" /\ enabled) =>
         /\ det_out.signals # << >>
         /\ det_out.signals[1] = "funding_extreme_long"
         /\ "funding_fast_rise" \notin Returned

\* the Detector has answered on a rate of 0.0012 with a rising trend
C25_Witness ==
  /\ det_out.kind = "result"
  /\ enabled
  /\ det_in.fr = FundingSnap(12, "up")
  /\ det_out.signals[1] = "funding_extreme_long"

\* C26: whatever the instance was invoked on before, an invocation returns
\* the has_opportunity and the signals a new instance returns on the same
\* four snapshots; two invocations on the same snapshots agree
C26_DetectorStateless ==
  det_out.kind = "result" =>
    LET d == detect_trading_opportunity(enabled, det_in.fr, det_in.kv,
                                        det_in.lq, det_in.ns)
    IN  /\ det_out.has_opportunity = d.has_opportunity
        /\ det_out.signals = d.signals

\* an instance that held five signals was invoked on degraded snapshots
C26_Witness ==
  /\ det_out.kind = "result"
  /\ enabled
  /\ det_out.calls = MaxDetects
  /\ Len(det_out.held) = 5
  /\ det_out.signals = << >>

\* number of upstream rounds that failed in the call followed
UpstreamFailures ==
  Cardinality({ i \in 1..Len(retry.upstream) : retry.upstream[i] = "fail" })

RetryActive == retry.pc \in { "attempt", "sleeping", "returned", "raised" }

\* C23: _retry_on_error calls the operation at most max_retries times; the
\* first success is returned with no further attempt; it has slept exactly
\* once after each failed attempt that another attempt follows; after
\* max_retries failures it raises the last one; it ends in no other way
C23_BoundedRetry ==
  RetryActive =>
    /\ Len(retry.upstream) <= MAX_RETRIES
    /\ retry.pc = "attempt" =>
         /\ Len(retry.upstream) = retry.attempt
         /\ retry.sleeps = Len(retry.raised)
         /\ Len(retry.raised) = retry.attempt
         /\ retry.attempt < MAX_RETRIES
    /\ retry.pc = "sleeping" =>
         /\ Len(retry.raised) = retry.sleeps + 1
         /\ Len(retry.raised) < MAX_RETRIES
    /\ retry.pc = "returned" =>
         /\ retry.result # NULL
         /\ retry.result.kind # "error"
         /\ Len(retry.upstream) = Len(retry.raised) + 1
         /\ retry.sleeps = Len(retry.raised)
    /\ retry.pc = "raised" =>
         /\ Len(retry.raised) = MAX_RETRIES
         /\ Len(retry.upstream) = MAX_RETRIES
         /\ retry.sleeps = MAX_RETRIES - 1
         /\ retry.result = [kind |-> "error",
                            error |-> retry.raised[MAX_RETRIES]]

\* the funding collector succeeded at its last attempt, after two waits
C23_Witness ==
  /\ retry.pc = "returned"
  /\ retry.collector = "funding"
  /\ Len(retry.raised) = MAX_RETRIES - 1
  /\ retry.sleeps = MAX_RETRIES - 1
  /\ retry.result = FundingSnap(12, "up")

\* C27: the market-pressure collector returns its degraded snapshot only
\* after max_retries failed upstream attempts
C27_DegradedOnlyOnExhaustion ==
  (/\ RetryActive
   /\ retry.collector = "liquidation"
   /\ retry.pc = "returned"
   /\ retry.result = LiqDegraded)
    => UpstreamFailures = MAX_RETRIES

====
